---- MODULE Spec2Model ----
(***************************************************************************)
(* A model of pmg's bin/bump.js: one process running exports.bump() once   *)
(* against a working copy (nodegit), the remote "origin" and the hosting   *)
(* API (octokit).  JavaScript strings that the program edits character by  *)
(* character (package names, versions, branch names, commit messages) are  *)
(* sequences of one-character strings; host names and URLs, which are only *)
(* compared and concatenated, are TLA+ strings.                            *)
(***************************************************************************)
EXTENDS Integers, Sequences, FiniteSets, TLC

\* ---------------------------------------------------------------- bounds

\* Longest package name / version drawn by the naming specification.
MaxNameLen == 4
MaxVersionLen == 2

\* The runs of bump() on one working copy that SpecRerun follows.
MaxRuns == 2

\* ------------------------------------------------------- values, strings

\* JavaScript's undefined: a one-element sequence whose element is not a
\* single character, so it equals no modelled string.
Undefined == <<"undefined">>

SeqsUpTo(S, n) == UNION {[1..k -> S] : k \in 0..n}

\* The characters package names and versions are drawn from in SpecNaming.
NameChars == {"@", "/", "p"}
VersionChars == {"^", "~", "1"}

StrMaster == <<"m", "a", "s", "t", "e", "r">>
StrFeature == <<"w", "i", "p">>
StrLeftPad == <<"l", "e", "f", "t", "-", "p", "a", "d">>
StrScoped == <<"@", "s", "/", "p">>
StrOtherDep == <<"h", "o", "e", "k">>
Str100 == <<"1", ".", "0", ".", "0">>
Str200 == <<"2", ".", "0", ".", "0">>
StrCaret120 == <<"^", "1", ".", "2", ".", "0">>
StrTilde2 == <<"~", "2">>
StrBumpDash == <<"b", "u", "m", "p", "-">>
StrDashV == <<"-", "v">>
StrBumpSpace == <<"B", "u", "m", "p", " ">>
StrToV == <<" ", "t", "o", " ", "v">>
StrTechnical == <<"[", "T", "e", "c", "h", "n", "i", "c", "a", "l", "]", " ">>

\* String.prototype.replace(pattern, replacement) with a string pattern of
\* one character: only the first occurrence is replaced.
replaceFirst(s, c, r) ==
    IF \E i \in 1..Len(s) : s[i] = c
    THEN LET i == CHOOSE k \in 1..Len(s) :
                      s[k] = c /\ \A j \in 1..(k - 1) : s[j] # c
         IN SubSeq(s, 1, i - 1) \o r \o SubSeq(s, i + 1, Len(s))
    ELSE s

\* String.prototype.replace(/[...]/g, ''): every character of the class C
\* is removed.
removeAll(s, C) == SelectSeq(s, LAMBDA ch : ch \notin C)

\* Mutant of safeVersion: the range operators are kept.
safeVersion_Unchanged(afterVersion) == afterVersion

\* bump.js:132
safeVersion(afterVersion) == removeAll(afterVersion, {"^", "~"})

\* Mutant of safePackageName: every '@' and '/' is removed.
safePackageName_StripAll(packageName) == removeAll(packageName, {"@", "/"})

\* bump.js:133
safePackageName(packageName) ==
    replaceFirst(replaceFirst(packageName, "@", <<>>), "/", <<"-">>)

\* bump.js:134
makeBranchName(packageName, afterVersion) ==
    StrBumpDash \o safePackageName(packageName) \o StrDashV \o safeVersion(afterVersion)

\* bump.js:135
makeCommitMessage(packageName, afterVersion) ==
    StrBumpSpace \o safePackageName(packageName) \o StrToV \o safeVersion(afterVersion)

\* Mutant of prTitle: the commit message with no prefix.
prTitle_Bare(commitMessage) == commitMessage

\* bump.js:119
prTitle(commitMessage) == StrTechnical \o commitMessage

\* Mutant of getBaseUrl: every host is taken for an Enterprise host.
getBaseUrl_AlwaysV3(hostName) == "https://" \o hostName \o "/api/v3"

\* bump.js:94-101
getBaseUrl(hostName) ==
    IF hostName = "github.com"
    THEN "https://api.github.com"
    ELSE "https://" \o hostName \o "/api/v3"

\* ------------------------------------------------------ JSON and the manifest

\* A parsed JSON object: a sequence of <<key, value>> members in insertion
\* order, keys distinct.
hasKey(obj, k) == \E i \in 1..Len(obj) : obj[i][1] = k

indexOfKey(obj, k) == CHOOSE i \in 1..Len(obj) : obj[i][1] = k

\* obj[k]: undefined for a missing key.
getKey(obj, k) == IF hasKey(obj, k) THEN obj[indexOfKey(obj, k)][2] ELSE Undefined

\* obj[k] = v: an existing key keeps its place, a new key is appended.
setKey(obj, k, v) ==
    IF hasKey(obj, k)
    THEN [obj EXCEPT ![indexOfKey(obj, k)] = <<k, v>>]
    ELSE Append(obj, <<k, v>>)

\* The keys of an object, as a set.
keysOf(obj) == {obj[i][1] : i \in 1..Len(obj)}

\* The members of a JSON text may repeat a key: the parsed object holds the
\* key once, at its first place, with its last value.
RECURSIVE dedupe(_)
dedupe(members) ==
    IF members = <<>> THEN <<>>
    ELSE LET last == members[Len(members)]
             rest == dedupe(SubSeq(members, 1, Len(members) - 1))
         IN IF hasKey(rest, last[1]) THEN setKey(rest, last[1], last[2])
            ELSE Append(rest, last)

\* A manifest file: [valid, indent, newline, members]; members are the
\* top-level members as written, the value of "dependencies" being the
\* members of the nested object.
ManifestFile(valid, indent, newline, members) ==
    [valid |-> valid, indent |-> indent, newline |-> newline, members |-> members]

\* JSON.parse (bump.js:147) of a valid file.
JSONparse(file) ==
    LET top == dedupe(file.members)
    IN IF hasKey(top, "dependencies")
       THEN setKey(top, "dependencies", dedupe(getKey(top, "dependencies")))
       ELSE top

\* JSON.stringify(pkg, null, 2) + '\n' (bump.js:157).
JSONstringify(pkg) == ManifestFile(TRUE, 2, TRUE, pkg)

DepsLeftPad100 == <<<<StrOtherDep, Str200>>, <<StrLeftPad, Str100>>, <<StrScoped, Str100>>>>
DepsDuplicate == <<<<StrLeftPad, Str200>>, <<StrOtherDep, Str100>>, <<StrLeftPad, Str100>>>>
DepsOnlyOther == <<<<StrOtherDep, Str100>>>>
DepsLeftPad200 == <<<<StrLeftPad, Str200>>, <<StrScoped, Str200>>>>

FileLeftPad100 ==
    ManifestFile(TRUE, 4, FALSE, <<<<"name", "app">>, <<"dependencies", DepsLeftPad100>>, <<"private", "true">>>>)
FileDuplicate ==
    ManifestFile(TRUE, 2, TRUE, <<<<"dependencies", DepsDuplicate>>, <<"name", "app">>, <<"name", "app2">>>>)
FileOnlyOther ==
    ManifestFile(TRUE, 2, TRUE, <<<<"name", "app">>, <<"dependencies", DepsOnlyOther>>>>)
FileLeftPad200 ==
    ManifestFile(TRUE, 2, TRUE, <<<<"name", "app">>, <<"dependencies", DepsLeftPad200>>>>)
FileNoDeps ==
    ManifestFile(TRUE, 2, TRUE, <<<<"name", "app">>>>)
FileInvalid ==
    ManifestFile(FALSE, 0, FALSE, <<>>)

\* The manifests master's head may hold when the run starts.
ManifestFiles == {FileLeftPad100, FileDuplicate, FileOnlyOther, FileNoDeps, FileInvalid}

\* The manifests an upstream commit fetched during the run may hold.
UpstreamFiles == {FileLeftPad100, FileLeftPad200}

\* ------------------------------------------------------------ remote URLs

\* The pathname of a remote URL, as tokens: "/" , ".git", or a piece of a name.
UrlGithub == [hostname |-> "github.com", pathname |-> <<"/", "lerouxb", "/", "pmg", ".git">>]
UrlEnterprise == [hostname |-> "git.example.com", pathname |-> <<"/", "team", "/", "my", ".git", "hub", ".git">>]

UrlMirror == [hostname |-> "github.com.example.org", pathname |-> <<"/", "mirror", "/", "pmg">>]

RemoteUrls == {UrlGithub, UrlEnterprise, UrlMirror}

\* String.prototype.split('/'), on tokens.
RECURSIVE splitSlash(_)
splitSlash(toks) ==
    IF toks = <<>> THEN <<"">>
    ELSE IF Head(toks) = "/" THEN <<"">> \o splitSlash(Tail(toks))
    ELSE LET r == splitSlash(Tail(toks))
         IN <<Head(toks) \o Head(r)>> \o Tail(r)

\* bump.js:52-55: the host, and the first two segments of the path with its
\* leading character dropped and its first '.git' removed.
parseRepoInfo(url) ==
    LET parts == splitSlash(replaceFirst(Tail(url.pathname), ".git", <<>>))
    IN [host |-> url.hostname,
        owner |-> parts[1],
        name |-> IF Len(parts) >= 2 THEN parts[2] ELSE "<undefined>"]

\* ------------------------------------------------------------------ state

VARIABLES
    env,        \* process.env: [GITHUB_USERNAME, GITHUB_PASSWORD] (bump.js:16-17)
    args,       \* bump's arguments: [inputPath, packageName, beforeVersion, afterVersion]
    pc,         \* where bump() stands
    local,      \* bump's locals: [repoInfo, branchName, commitMessage, pkg]
    repo,       \* the working copy at inputPath
    remote,     \* origin and its hosting API: [branches (other than master), prs]
    calls,      \* the collaborator operations invoked so far, in order
    prRequests, \* the arguments of each pullRequests.create call
    proc,       \* the process: [exitCode, stdout, stderr]
    start       \* repo and remote as they were when the run started, and the
                \* earlier runs on this working copy: [repo, remote, prev]

vars == <<env, args, pc, local, repo, remote, calls, prRequests, proc, start>>

Paths == {"package.json", "README.md"}

\* A commit id that is in the remote's object store only.
ForeignCommit == 0

NoExit == -1

Usernames == {Undefined, <<"u">>}
Passwords == {<<>>, <<"p">>}
PackageNames == {StrLeftPad, StrScoped}
BeforeVersions == {Str100, Str200, Undefined}
AfterVersions == {StrCaret120, StrTilde2, Undefined}

\* What inputPath holds: a clone of a github.com repository, of one of two
\* Enterprise hosts, a directory that is no repository, or a repository with
\* no remote named origin.
RepoKinds == {"github", "enterprise", "mirror", "notARepo", "noOrigin"}

\* Mutant of truthy: only undefined is refused, the empty string passes.
truthy_NotUndefined(v) == v # Undefined

\* A JavaScript value used as a condition (Hoek.assert's first argument).
truthy(v) == v # Undefined /\ v # <<>>

Commit(parents, tree, message) == [parents |-> parents, tree |-> tree, message |-> message]

Tree(manifest, readme) == [p \in Paths |-> IF p = "package.json" THEN manifest ELSE readme]

\* repo.getHeadCommit(): the commit HEAD's branch points to.
headCommit(r) == r.branches[r.HEAD]

treeOf(r, c) == r.commits[c].tree

\* Whether commit a is b or one of b's ancestors.
RECURSIVE isAncestor(_, _, _)
isAncestor(commits, a, b) ==
    \/ a = b
    \/ /\ b \in 1..Len(commits)
       /\ \E i \in 1..Len(commits[b].parents) : isAncestor(commits, a, commits[b].parents[i])

\* repo.getStatus(): the paths that differ from HEAD's tree in the work tree
\* or the index, and the untracked paths.
getStatus(r) ==
    {p \in Paths : r.worktree[p] # treeOf(r, headCommit(r))[p]
                   \/ r.index[p] # treeOf(r, headCommit(r))[p]}
    \cup r.untracked

\* Mutant of repoHasUncommittedChanges: the statuses are not looked at.
repoHasUncommittedChanges_Never(r) == FALSE

\* Mutant of repoHasUncommittedChanges: untracked paths are not counted.
repoHasUncommittedChanges_TrackedOnly(r) == Cardinality(getStatus(r) \ r.untracked) > 0

\* bump.js:29-34
repoHasUncommittedChanges(r) == Cardinality(getStatus(r)) > 0

\* Mutant of checkoutBranch: HEAD moves and the index and the work tree keep
\* the files of the branch that was checked out before.
checkoutBranch_RefOnly(r, name) == [r EXCEPT !.HEAD = name]

\* Mutant of checkoutBranch: the working copy stays where it is.
checkoutBranch_Noop(r, name) == r

\* repo.checkoutBranch(name): HEAD, index and work tree follow the branch.
checkoutBranch(r, name) ==
    [r EXCEPT !.HEAD = name,
              !.index = treeOf(r, r.branches[name]),
              !.worktree = treeOf(r, r.branches[name])]

\* What happened to origin's master since the last fetch, as fetchAll finds it.
FetchOutcomes == {"error", "same", "advanced", "rewritten"}

InitRepo(kind, head, dirty, manifest, existing, pkgName, after) ==
    LET commits == <<Commit(<<>>, Tree(manifest, "r0"), <<"i", "n", "i", "t">>),
                     Commit(<<1>>, Tree(FileLeftPad200, "r1"), <<"w", "i", "p">>)>>
        base == (StrMaster :> 1) @@ (StrFeature :> 2)
        branches == IF existing = "local" /\ after # Undefined
                    THEN (makeBranchName(pkgName, after) :> 1) @@ base
                    ELSE base
        tree == commits[base[head]].tree
    IN [isRepo |-> kind # "notARepo",
        origin |-> IF kind = "github" THEN <<UrlGithub>>
                   ELSE IF kind = "enterprise" THEN <<UrlEnterprise>>
                   ELSE IF kind = "mirror" THEN <<UrlMirror>>
                   ELSE <<>>,
        HEAD |-> head,
        branches |-> branches,
        tracking |-> 1,
        commits |-> commits,
        index |-> tree,
        worktree |-> IF dirty = "modified" THEN [tree EXCEPT !["README.md"] = "r2"] ELSE tree,
        untracked |-> IF dirty = "untracked" THEN {"notes.txt"} ELSE {}]

InitRemote(existing, pkgName, after) ==
    [branches |-> IF existing = "remote" /\ after # Undefined
                  THEN (makeBranchName(pkgName, after) :> ForeignCommit)
                  ELSE <<>>,
     prs |-> {}]

NoLocal == [repoInfo |-> <<>>, branchName |-> Undefined, commitMessage |-> Undefined, pkg |-> <<>>]

InitWith(username, password, pkgName, before, after, kind, head, dirty, manifest, existing) ==
    /\ env = [GITHUB_USERNAME |-> username, GITHUB_PASSWORD |-> password]
    /\ args = [inputPath |-> "/repo", packageName |-> pkgName,
               beforeVersion |-> before, afterVersion |-> after]
    /\ pc = "Start"
    /\ local = NoLocal
    /\ repo = InitRepo(kind, head, dirty, manifest, existing, pkgName, after)
    /\ remote = InitRemote(existing, pkgName, after)
    /\ calls = <<>>
    /\ prRequests = <<>>
    /\ proc = [exitCode |-> NoExit, stdout |-> <<>>, stderr |-> <<>>]
    /\ start = [repo |-> InitRepo(kind, head, dirty, manifest, existing, pkgName, after),
                remote |-> InitRemote(existing, pkgName, after),
                prev |-> <<>>]

Init ==
    \E username \in Usernames, password \in Passwords,
       pkgName \in PackageNames, before \in BeforeVersions, after \in AfterVersions,
       kind \in RepoKinds,
       head \in {StrMaster, StrFeature},
       dirty \in {"clean", "modified", "untracked"},
       manifest \in ManifestFiles,
       existing \in {"none", "local", "remote"} :
        InitWith(username, password, pkgName, before, after, kind, head, dirty, manifest, existing)

\* ---------------------------------------------------------------- actions

\* Mutant of Abort: the working copy is put back as it was at the start.
Abort_Rollback(error, r) ==
    /\ pc' = "Aborted"
    /\ proc' = [proc EXCEPT !.exitCode = 1, !.stderr = Append(@, error)]
    /\ repo' = start.repo

\* Mutant of Abort: the failed run is started again instead of ending.
Abort_Retry(error, r) ==
    /\ pc' = "Start"
    /\ proc' = [proc EXCEPT !.stderr = Append(@, error)]
    /\ repo' = r

\* main without process.exit(1): the error is printed and the process ends
\* with code 0.
Abort_ExitZero(error, r) ==
    /\ pc' = "Aborted"
    /\ proc' = [proc EXCEPT !.exitCode = 0, !.stderr = Append(@, error)]
    /\ repo' = r

\* An error thrown inside bump() reaches main's catch (bump.js:181-184):
\* console.error(error); process.exit(1). Nothing is undone: the working
\* copy stays as r, the state it had when the error was thrown.
Abort(error, r) ==
    /\ pc' = "Aborted"
    /\ proc' = [proc EXCEPT !.exitCode = 1, !.stderr = Append(@, error)]
    /\ repo' = r

\* bump.js:127-128
CheckCredentials ==
    /\ pc = "Start"
    /\ IF ~truthy(env.GITHUB_USERNAME) THEN Abort("GITHUB_USERNAME required", repo)
       ELSE IF ~truthy(env.GITHUB_PASSWORD) THEN Abort("GITHUB_PASSWORD required", repo)
       ELSE pc' = "CredentialsChecked" /\ UNCHANGED <<proc, repo>>
    /\ UNCHANGED <<env, args, local, remote, calls, prRequests, start>>

\* bump.js:130-135: getRepoInfo, then the names.
GetRepoInfo ==
    /\ pc = "CredentialsChecked"
    /\ IF ~repo.isRepo
       THEN /\ calls' = calls \o <<"open">>
            /\ Abort("open failed", repo)
            /\ UNCHANGED local
       ELSE IF repo.origin = <<>>
       THEN /\ calls' = calls \o <<"open", "getRemote">>
            /\ Abort("getRemote failed", repo)
            /\ UNCHANGED local
       ELSE /\ calls' = calls \o <<"open", "getRemote">>
            /\ IF args.afterVersion = Undefined
               THEN /\ Abort("TypeError", repo)
                    /\ local' = [local EXCEPT !.repoInfo = <<parseRepoInfo(repo.origin[1])>>]
               ELSE /\ pc' = "RepoInfoRead"
                    /\ local' = [local EXCEPT
                          !.repoInfo = <<parseRepoInfo(repo.origin[1])>>,
                          !.branchName = makeBranchName(args.packageName, args.afterVersion),
                          !.commitMessage = makeCommitMessage(args.packageName, args.afterVersion)]
                    /\ UNCHANGED <<proc, repo>>
    /\ UNCHANGED <<env, args, remote, prRequests, start>>

\* bump.js:137-138
CheckClean ==
    /\ pc = "RepoInfoRead"
    /\ calls' = calls \o <<"open", "getStatus">>
    /\ IF repoHasUncommittedChanges(repo)
       THEN Abort("uncommitted changes", repo)
       ELSE pc' = "TreeClean" /\ UNCHANGED <<proc, repo>>
    /\ UNCHANGED <<env, args, local, remote, prRequests, start>>

\* bump.js:140-141
CheckoutMaster ==
    /\ pc = "TreeClean"
    /\ calls' = calls \o <<"open", "checkoutBranch">>
    /\ \E ok \in BOOLEAN :
        IF ok /\ StrMaster \in DOMAIN repo.branches
        THEN /\ repo' = checkoutBranch(repo, StrMaster)
             /\ pc' = "MasterCheckedOut"
             /\ UNCHANGED proc
        ELSE Abort("checkout failed", repo)
    /\ UNCHANGED <<env, args, local, remote, prRequests, start>>

\* bump.js:62: repo.fetchAll. origin's master is shared with other
\* developers and is not part of the state: the fetch finds it where it was
\* at the last fetch, one commit ahead, or rewritten, and the remote-tracking
\* branch origin/master follows.
FetchAll ==
    /\ pc = "MasterCheckedOut"
    /\ calls' = calls \o <<"open", "fetchAll">>
    /\ \E outcome \in FetchOutcomes :
        CASE outcome = "error" ->
                Abort("fetch failed", repo)
          [] outcome = "same" ->
                /\ pc' = "Fetched"
                /\ UNCHANGED <<repo, proc>>
          [] outcome = "advanced" ->
                \E file \in UpstreamFiles :
                    LET c == Commit(<<repo.tracking>>, Tree(file, "r0"), <<"u", "p">>)
                    IN /\ repo' = [repo EXCEPT !.commits = Append(@, c),
                                               !.tracking = Len(repo.commits) + 1]
                       /\ pc' = "Fetched"
                       /\ UNCHANGED proc
          [] outcome = "rewritten" ->
                LET c == Commit(<<>>, Tree(FileLeftPad200, "r3"), <<"n", "e", "w">>)
                IN /\ repo' = [repo EXCEPT !.commits = Append(@, c),
                                           !.tracking = Len(repo.commits) + 1]
                   /\ pc' = "Fetched"
                   /\ UNCHANGED proc
    /\ UNCHANGED <<env, args, local, remote, prRequests, start>>

\* bump.js:64: repo.mergeBranches('master', 'origin/master'): nothing to do
\* when origin/master is merged already, a fast-forward when master is its
\* ancestor, and a conflict otherwise.
MergeBranches ==
    /\ pc = "Fetched"
    /\ calls' = calls \o <<"mergeBranches">>
    /\ LET ours == repo.branches[StrMaster]
           theirs == repo.tracking
       IN IF isAncestor(repo.commits, theirs, ours)
          THEN /\ pc' = "Synced"
               /\ UNCHANGED <<repo, proc>>
          ELSE IF isAncestor(repo.commits, ours, theirs)
          THEN /\ pc' = "Synced"
               /\ repo' = IF repo.HEAD = StrMaster
                          THEN [repo EXCEPT !.branches[StrMaster] = theirs,
                                            !.index = treeOf(repo, theirs),
                                            !.worktree = treeOf(repo, theirs)]
                          ELSE [repo EXCEPT !.branches[StrMaster] = theirs]
               /\ UNCHANGED proc
          ELSE Abort("merge conflict", repo)
    /\ UNCHANGED <<env, args, local, remote, prRequests, start>>

\* Mutant of versionMatches: a missing entry matches any version.
versionMatches_MissingPasses(currentVersion, beforeVersion) ==
    currentVersion = Undefined \/ currentVersion = beforeVersion

\* bump.js:149: currentVersion === beforeVersion
versionMatches(currentVersion, beforeVersion) == currentVersion = beforeVersion

\* bump.js:146-149
VerifyVersion ==
    /\ pc = "Synced"
    /\ calls' = calls \o <<"readFile">>
    /\ LET file == repo.worktree["package.json"]
       IN IF ~file.valid
          THEN Abort("SyntaxError", repo) /\ UNCHANGED local
          ELSE LET pkg == JSONparse(file)
               IN /\ local' = [local EXCEPT !.pkg = pkg]
                  /\ IF ~hasKey(pkg, "dependencies")
                     THEN Abort("TypeError", repo)
                     ELSE IF ~versionMatches(getKey(getKey(pkg, "dependencies"), args.packageName),
                                             args.beforeVersion)
                     THEN Abort("must equal", repo)
                     ELSE pc' = "VersionVerified" /\ UNCHANGED <<proc, repo>>
    /\ UNCHANGED <<env, args, remote, prRequests, start>>

\* createBranch with force = true: an existing branch is moved to the head.
CreateBranch_Force ==
    /\ pc = "VersionVerified"
    /\ calls' = calls \o <<"open", "getHeadCommit", "createBranch">>
    /\ repo' = [repo EXCEPT !.branches =
                   (local.branchName :> headCommit(repo)) @@
                   [b \in DOMAIN @ \ {local.branchName} |-> @[b]]]
    /\ pc' = "BranchCreated"
    /\ UNCHANGED proc
    /\ UNCHANGED <<env, args, local, remote, prRequests, start>>

\* bump.js:151-152, 73-78: repo.createBranch(branchName, head, force = false)
CreateBranch ==
    /\ pc = "VersionVerified"
    /\ calls' = calls \o <<"open", "getHeadCommit", "createBranch">>
    /\ IF local.branchName \in DOMAIN repo.branches
       THEN Abort("createBranch failed", repo)
       ELSE /\ repo' = [repo EXCEPT !.branches = (local.branchName :> headCommit(repo)) @@ @]
            /\ pc' = "BranchCreated"
            /\ UNCHANGED proc
    /\ UNCHANGED <<env, args, local, remote, prRequests, start>>

\* bump.js:153
CheckoutNewBranch ==
    /\ pc = "BranchCreated"
    /\ calls' = calls \o <<"open", "checkoutBranch">>
    /\ \E ok \in BOOLEAN :
        IF ok /\ local.branchName \in DOMAIN repo.branches
        THEN /\ repo' = checkoutBranch(repo, local.branchName)
             /\ pc' = "BranchCheckedOut"
             /\ UNCHANGED proc
        ELSE Abort("checkout failed", repo)
    /\ UNCHANGED <<env, args, local, remote, prRequests, start>>

\* Mutant of bumpDependency: the sanitized version is recorded.
bumpDependency_Sanitized(pkg, packageName, afterVersion) ==
    setKey(pkg, "dependencies",
           setKey(getKey(pkg, "dependencies"), packageName, safeVersion(afterVersion)))

\* bump.js:156: pkg.dependencies[packageName] = afterVersion
bumpDependency(pkg, packageName, afterVersion) ==
    setKey(pkg, "dependencies", setKey(getKey(pkg, "dependencies"), packageName, afterVersion))

\* bump.js:155-157
WriteManifest ==
    /\ pc = "BranchCheckedOut"
    /\ calls' = calls \o <<"writeFile">>
    /\ local' = [local EXCEPT !.pkg = bumpDependency(local.pkg, args.packageName, args.afterVersion)]
    /\ \E ok \in BOOLEAN :
        IF ok
        THEN /\ repo' = [repo EXCEPT !.worktree["package.json"] = JSONstringify(local'.pkg)]
             /\ pc' = "ManifestUpdated"
             /\ UNCHANGED proc
        ELSE Abort("writeFile failed", repo)
    /\ UNCHANGED <<env, args, remote, prRequests, start>>

\* bump.js:85-88: index.addByPath for each path, index.write
stagePaths(r, paths) ==
    [r EXCEPT !.index = [p \in Paths |-> IF p \in paths THEN r.worktree[p] ELSE r.index[p]]]

\* Mutant of createCommit: the commit is created with no parent.
createCommit_Orphan(r, message) ==
    [r EXCEPT !.commits = Append(@, Commit(<<>>, r.index, message)),
              !.branches[r.HEAD] = Len(r.commits) + 1]

\* Mutant of createCommit: the commit is written with no reference updated.
createCommit_NoRefUpdate(r, message) ==
    [r EXCEPT !.commits = Append(@, Commit(<<headCommit(r)>>, r.index, message))]

\* bump.js:89-91: writeTree, getHeadCommit, createCommit('HEAD', ..., [head])
createCommit(r, message) ==
    [r EXCEPT !.commits = Append(@, Commit(<<headCommit(r)>>, r.index, message)),
              !.branches[r.HEAD] = Len(r.commits) + 1]

\* Where commitPaths may stop: before the index changes, or after it is
\* written and before the commit is created.
CommitOutcomes == {"ok", "stageFailed", "commitFailed"}

\* bump.js:159-161, 80-92
CommitPaths ==
    /\ pc = "ManifestUpdated"
    /\ \E outcome \in CommitOutcomes :
        CASE outcome = "stageFailed" ->
                /\ calls' = calls \o <<"open", "defaultSignature", "refreshIndex", "addByPath">>
                /\ Abort("addByPath failed", repo)
          [] outcome = "commitFailed" ->
                /\ calls' = calls \o <<"open", "defaultSignature", "refreshIndex", "addByPath",
                                      "indexWrite", "writeTree", "getHeadCommit", "createCommit">>
                /\ Abort("createCommit failed", stagePaths(repo, {"package.json"}))
          [] outcome = "ok" ->
                /\ calls' = calls \o <<"open", "defaultSignature", "refreshIndex", "addByPath",
                                      "indexWrite", "writeTree", "getHeadCommit", "createCommit">>
                /\ repo' = createCommit(stagePaths(repo, {"package.json"}), local.commitMessage)
                /\ pc' = "Committed"
                /\ UNCHANGED proc
    /\ UNCHANGED <<env, args, local, remote, prRequests, start>>

\* bump.js:70: the refspec refs/heads/B:refs/heads/B carries no '+', so
\* origin takes the ref only when it has no such branch or the branch is an
\* ancestor of the pushed commit.
pushAccepted(r, rem, branch) ==
    \/ branch \notin DOMAIN rem.branches
    \/ isAncestor(r.commits, rem.branches[branch], r.branches[branch])

\* bump.js:163-166, 67-71
Push ==
    /\ pc = "Committed"
    /\ calls' = calls \o <<"open", "getRemote", "push">>
    /\ \E ok \in BOOLEAN :
        IF ok /\ pushAccepted(repo, remote, local.branchName)
        THEN /\ remote' = [remote EXCEPT
                    !.branches = (local.branchName :> repo.branches[local.branchName]) @@ @]
             /\ proc' = [proc EXCEPT !.stdout =
                    Append(@, <<"Pushed", local.branchName, local.repoInfo[1].owner, local.repoInfo[1].name>>)]
             /\ pc' = "Pushed"
             /\ UNCHANGED repo
        ELSE /\ Abort("push failed", repo)
             /\ UNCHANGED remote
    /\ UNCHANGED <<env, args, local, prRequests, start>>

\* bump.js:105-120: the request createPR sends.
prRequest(repoInfo, branchName, commitMessage) ==
    [baseUrl |-> getBaseUrl(repoInfo.host),
     username |-> env.GITHUB_USERNAME,
     password |-> env.GITHUB_PASSWORD,
     owner |-> repoInfo.owner,
     repo |-> repoInfo.name,
     head |-> branchName,
     base |-> StrMaster,
     title |-> prTitle(commitMessage)]

\* bump.js:168-171, 103-123. When bump() returns, main ends and the
\* process exits with code 0.
CreatePR ==
    /\ pc = "Pushed"
    /\ calls' = calls \o <<"authenticate", "createPR">>
    /\ LET req == prRequest(local.repoInfo[1], local.branchName, local.commitMessage)
       IN /\ prRequests' = Append(prRequests, req)
          /\ \E ok \in BOOLEAN :
              IF ok /\ req.head \in DOMAIN remote.branches
              THEN /\ remote' = [remote EXCEPT !.prs = @ \cup {req}]
                   /\ proc' = [proc EXCEPT !.exitCode = 0,
                                           !.stdout = Append(@, <<"url", req.baseUrl, req.owner, req.repo, req.head>>)]
                   /\ pc' = "PRCreated"
                   /\ UNCHANGED repo
              ELSE /\ Abort("createPR failed", repo)
                   /\ UNCHANGED remote
    /\ UNCHANGED <<env, args, local, start>>

Next ==
    \/ CheckCredentials
    \/ GetRepoInfo
    \/ CheckClean
    \/ CheckoutMaster
    \/ FetchAll
    \/ MergeBranches
    \/ VerifyVersion
    \/ CreateBranch
    \/ CheckoutNewBranch
    \/ WriteManifest
    \/ CommitPaths
    \/ Push
    \/ CreatePR

Spec == Init /\ [][Next]_vars

\* ------------------------------------------------------ naming, on its own

\* The naming of bump.js:132-135 over every package name and version up to
\* the bounds, in a clean clone with credentials set.
InitNaming ==
    \E pkgName \in SeqsUpTo(NameChars, MaxNameLen), after \in SeqsUpTo(VersionChars, MaxVersionLen) :
        InitWith(<<"u">>, <<"p">>, pkgName, Str100, after, "github", StrMaster, "clean",
                 FileLeftPad100, "none")

NextNaming ==
    \/ CheckCredentials
    \/ GetRepoInfo

SpecNaming == InitNaming /\ [][NextNaming]_vars

\* ------------------------------------------------- one run after another

\* The requests of SpecRerun: both packages, from 1.0.0 to either version.
RerunRequests ==
    {[inputPath |-> "/repo", packageName |-> p, beforeVersion |-> Str100, afterVersion |-> a] :
        p \in PackageNames, a \in {StrCaret120, StrTilde2}}

\* bump.js:174-186: the program is started again, with the same environment,
\* on the working copy as the run before left it.
Rerun ==
    /\ pc \in {"PRCreated", "Aborted"}
    /\ Len(start.prev) + 1 < MaxRuns
    /\ args' \in RerunRequests
    /\ pc' = "Start"
    /\ local' = NoLocal
    /\ calls' = <<>>
    /\ prRequests' = <<>>
    /\ proc' = [exitCode |-> NoExit, stdout |-> <<>>, stderr |-> <<>>]
    /\ start' = [repo |-> repo, remote |-> remote,
                 prev |-> Append(start.prev, [args |-> args, pc |-> pc, calls |-> calls, proc |-> proc])]
    /\ UNCHANGED <<env, repo, remote>>

\* Runs with credentials set on a clean clone of the github.com repository
\* whose manifest records both packages at 1.0.0.
InitRerun ==
    \E request \in RerunRequests :
        InitWith(<<"u">>, <<"p">>, request.packageName, request.beforeVersion,
                 request.afterVersion, "github", StrMaster, "clean", FileLeftPad100, "none")

NextRerun ==
    \/ Next
    \/ Rerun

SpecRerun == InitRerun /\ [][NextRerun]_vars

\* ----------------------------------------------------------------- claims

Range(seq) == {seq[i] : i \in 1..Len(seq)}

\* The collaborator operations that change the working copy, origin or the
\* hosting service.
MutatingOps ==
    {"checkoutBranch", "fetchAll", "mergeBranches", "createBranch", "writeFile",
     "addByPath", "indexWrite", "writeTree", "createCommit", "push", "authenticate", "createPR"}

\* Nothing of the working copy, origin or the hosting service has changed
\* since the run started.
NothingChanged == repo = start.repo /\ remote = start.remote /\ prRequests = <<>>

\* C1: once the status query has been made on a working copy with at least
\* one changed path (tracked or untracked), the run is aborted, none of
\* checkout, fetch, merge, branch creation, manifest write, commit, push or
\* pull-request creation has been invoked, and the working copy and origin
\* are as they were at the start.
C1_DirtyTreeAborts ==
    ("getStatus" \in Range(calls) /\ getStatus(start.repo) # {})
        => /\ pc = "Aborted"
           /\ Range(calls) \cap MutatingOps = {}
           /\ NothingChanged

C1_Witness ==
    /\ pc = "Aborted"
    /\ "getStatus" \in Range(calls)
    /\ getStatus(start.repo) = {"notes.txt"}

\* The manifest as VerifyVersion is about to read it records, for
\* packageName, a version other than beforeVersion.
ManifestMismatch ==
    /\ repo.worktree["package.json"].valid
    /\ hasKey(JSONparse(repo.worktree["package.json"]), "dependencies")
    /\ getKey(getKey(JSONparse(repo.worktree["package.json"]), "dependencies"),
              args.packageName) # args.beforeVersion

\* No branch has been created, the manifest has not been written, and no
\* commit, push or pull request has been made.
NoBumpEffect ==
    /\ DOMAIN repo.branches = DOMAIN start.repo.branches
    /\ Range(calls) \cap {"createBranch", "writeFile", "addByPath", "indexWrite",
                          "writeTree", "createCommit", "push", "createPR"} = {}
    /\ repo.worktree = treeOf(repo, headCommit(repo))
    /\ Len(repo.commits) <= Len(start.repo.commits) + 1
    /\ remote = start.remote
    /\ prRequests = <<>>

\* C2: when the manifest read after the sync records for packageName a
\* version (or no version) that is not beforeVersion, the step that reads it
\* aborts the run, and in that run no branch has been created, the manifest
\* has not been written, and no commit, push or pull request has been made.
C2_VersionMismatchAborts ==
    /\ [][(pc = "Synced" /\ ManifestMismatch) => (pc' = "Aborted" /\ NoBumpEffect')]_vars
    /\ []((pc = "Aborted" /\ proc.stderr = <<"must equal">>) => NoBumpEffect)

C2_Witness ==
    /\ pc = "Aborted"
    /\ proc.stderr = <<"must equal">>
    /\ args.beforeVersion = Str200
    /\ getKey(getKey(local.pkg, "dependencies"), args.packageName) = Str100

\* C3: with GITHUB_USERNAME or GITHUB_PASSWORD absent or empty, the run
\* never gets past its first step: it is aborted with no collaborator
\* operation invoked (no repository call, no file read or write, no hosting
\* API call) and nothing changed.
C3_MissingCredentialsFailFirst ==
    (env.GITHUB_USERNAME \in {Undefined, <<>>} \/ env.GITHUB_PASSWORD \in {Undefined, <<>>})
        => /\ pc \in {"Start", "Aborted"}
           /\ calls = <<>>
           /\ NothingChanged

C3_Witness ==
    /\ pc = "Aborted"
    /\ env.GITHUB_USERNAME = <<"u">>
    /\ env.GITHUB_PASSWORD = <<>>
    /\ proc.stderr = <<"GITHUB_PASSWORD required">>
    /\ calls = <<>>

\* The positions of bump(), in program order.
PcOrder ==
    <<"Start", "CredentialsChecked", "RepoInfoRead", "TreeClean", "MasterCheckedOut",
      "Fetched", "Synced", "VersionVerified", "BranchCreated", "BranchCheckedOut",
      "ManifestUpdated", "Committed", "Pushed", "PRCreated">>

\* The workflow states of the specification; BranchCheckedOut is its
\* BranchCreated&CheckedOut.
WorkflowStates ==
    <<"Start", "CredentialsChecked", "TreeClean", "Synced", "VersionVerified",
      "BranchCheckedOut", "ManifestUpdated", "Committed", "Pushed", "PRCreated">>

PcIndex(p) == CHOOSE i \in 1..Len(PcOrder) : PcOrder[i] = p

\* The number of workflow states a run standing at p has reached.
WorkflowIndex(p) ==
    Cardinality({i \in 1..Len(WorkflowStates) : PcIndex(WorkflowStates[i]) <= PcIndex(p)})

\* One step of a run: on to the next position, which is the same or the
\* next workflow state, or from a position that is not terminal to Aborted.
OrderedStep ==
    /\ pc \in Range(PcOrder) \ {"PRCreated"}
    /\ \/ pc' = "Aborted"
       \/ /\ pc' \in Range(PcOrder)
          /\ PcIndex(pc') = PcIndex(pc) + 1
          /\ WorkflowIndex(pc') \in {WorkflowIndex(pc), WorkflowIndex(pc) + 1}

\* The repository operations begin with the lookup of the remote "origin"
\* (getRepoInfo); the status query comes next, before any other operation.
RepoInfoThenStatus ==
    /\ Len(calls) >= 1 => SubSeq(calls, 1, 1) = <<"open">>
    /\ Len(calls) >= 2 => SubSeq(calls, 1, 2) = <<"open", "getRemote">>
    /\ Len(calls) >= 3 => SubSeq(calls, 1, 4) = <<"open", "getRemote", "open", "getStatus">>

\* C4 (amended): every step of a run moves to the next position of the
\* workflow, never skipping or repeating one, or to Aborted, after which (as
\* after PRCreated) no step is taken; no collaborator is called before the
\* credential check has passed, and none that changes anything before the
\* tree has been found clean; the first repository operation after the
\* credential check is the lookup of the remote "origin", and the status
\* query is the next one.
C4_WorkflowOrder ==
    /\ [][OrderedStep]_vars
    /\ [](RepoInfoThenStatus)
    /\ [](pc = "Start" => calls = <<>>)
    /\ [](pc \in {"Start", "CredentialsChecked", "RepoInfoRead"} => Range(calls) \cap MutatingOps = {})

C4_Witness ==
    /\ pc = "PRCreated"
    /\ SubSeq(calls, 1, 4) = <<"open", "getRemote", "open", "getStatus">>

\* C4 as claimed, the sentence that fails: the first repository operation
\* of a run, after opening the repository, is the status query.
C4_Original_StatusQueryFirst ==
    \A i \in 1..Len(calls) :
        (calls[i] # "open" /\ \A j \in 1..(i - 1) : calls[j] = "open") => calls[i] = "getStatus"

\* The run was aborted by a rejected push.
PushRejected == pc = "Aborted" /\ proc.stderr = <<"push failed">>

\* Branch b of working copy r was created in this run and points to the
\* bump commit: message commitMessage, one parent (master's head), and a
\* manifest recording afterVersion for packageName.
HoldsBumpCommit(r, b) ==
    /\ b \in DOMAIN r.branches
    /\ b \notin DOMAIN start.repo.branches
    /\ LET c == r.commits[r.branches[b]]
       IN /\ c.message = local.commitMessage
          /\ c.parents = <<r.branches[StrMaster]>>
          /\ getKey(getKey(JSONparse(c.tree["package.json"]), "dependencies"),
                    args.packageName) = args.afterVersion

\* A pull request is requested only after the push has succeeded.
PROnlyAfterPush ==
    "createPR" \in Range(calls)
        => /\ local.branchName \in DOMAIN remote.branches
           /\ remote.branches[local.branchName] = repo.branches[local.branchName]
           /\ \E i, j \in 1..Len(calls) : i < j /\ calls[i] = "push" /\ calls[j] = "createPR"

\* C5 (amended): when the push is rejected the run is aborted with the new
\* branch and its bump commit in the working copy, origin as it was when the
\* run started (the run has neither created nor moved a branch there), and
\* no pull request requested; a pull request is requested only in runs
\* whose push has succeeded.
C5_PushRejected ==
    /\ PushRejected
        => /\ HoldsBumpCommit(repo, local.branchName)
           /\ remote = start.remote
           /\ "createPR" \notin Range(calls)
           /\ prRequests = <<>>
    /\ PROnlyAfterPush

C5_Witness ==
    /\ PushRejected
    /\ local.branchName \in DOMAIN remote.branches
    /\ HoldsBumpCommit(repo, local.branchName)

\* C5 as claimed: after a rejected push origin has no branch named
\* branchName.
C5_Original_RemoteHasNoBranch ==
    /\ PushRejected
        => /\ HoldsBumpCommit(repo, local.branchName)
           /\ local.branchName \notin DOMAIN remote.branches
           /\ "createPR" \notin Range(calls)
           /\ prRequests = <<>>
    /\ PROnlyAfterPush

\* The manifest in the work tree, parsed, and the manifest of master's head
\* (the one read after the sync), parsed.
FinalManifest == JSONparse(repo.worktree["package.json"])
SyncedManifest == JSONparse(treeOf(repo, repo.branches[StrMaster])["package.json"])

\* Objects a and b have the same keys in the same order, and the same
\* values but for key k.
SameBut(a, b, k) ==
    /\ Len(a) = Len(b)
    /\ \A i \in 1..Len(a) : a[i][1] = b[i][1] /\ (a[i][1] # k => a[i][2] = b[i][2])

\* C6: a successful run of a request whose beforeVersion the synced
\* manifest records ends with dependencies[packageName] equal to
\* afterVersion as given (with its ^ or ~), in the work tree and in the bump
\* commit, and every other key and value, at the top level and in
\* dependencies, as in the manifest read after the sync.
C6_ManifestFrame ==
    (pc = "PRCreated" /\ args.beforeVersion # Undefined)
        => /\ repo.worktree["package.json"].valid
           /\ getKey(getKey(FinalManifest, "dependencies"), args.packageName) = args.afterVersion
           /\ SameBut(FinalManifest, SyncedManifest, "dependencies")
           /\ SameBut(getKey(FinalManifest, "dependencies"),
                      getKey(SyncedManifest, "dependencies"), args.packageName)
           /\ treeOf(repo, headCommit(repo))["package.json"] = repo.worktree["package.json"]

C6_Witness ==
    /\ pc = "PRCreated"
    /\ args.beforeVersion = Str100
    /\ args.afterVersion = StrCaret120
    /\ Len(getKey(SyncedManifest, "dependencies")) >= 2
    /\ Len(SyncedManifest) >= 2

\* s without the characters of C.
RECURSIVE StripChars(_, _)
StripChars(s, C) ==
    IF s = <<>> THEN <<>>
    ELSE IF Head(s) \in C THEN StripChars(Tail(s), C)
    ELSE <<Head(s)>> \o StripChars(Tail(s), C)

\* The first place of character c in s, 0 when it has none.
FirstIndex(s, c) ==
    IF \E i \in 1..Len(s) : s[i] = c
    THEN CHOOSE i \in 1..Len(s) : s[i] = c /\ \A j \in 1..(i - 1) : s[j] # c
    ELSE 0

\* s without its i-th character (s itself when i = 0).
WithoutIndex(s, i) ==
    IF i = 0 THEN s
    ELSE [k \in 1..(Len(s) - 1) |-> IF k < i THEN s[k] ELSE s[k + 1]]

\* packageName with its first '@' removed and then its first '/' turned
\* into '-'.
ExpectedSafeName(packageName) ==
    LET s == WithoutIndex(packageName, FirstIndex(packageName, "@"))
    IN [k \in 1..Len(s) |-> IF k = FirstIndex(s, "/") THEN "-" ELSE s[k]]

\* C7 (amended): branchName is 'bump-' P '-v' V and commitMessage is
\* 'Bump ' P ' to v' V, functions of packageName and afterVersion alone,
\* where V is afterVersion without its '^' and '~' characters and P is
\* packageName with its first '@' removed and its first '/' replaced by '-'
\* (later '@' and '/' are kept): '@p/p' yields 'p-p'.
C7_Naming ==
    local.branchName # Undefined
        => /\ local.branchName =
                StrBumpDash \o ExpectedSafeName(args.packageName) \o StrDashV
                    \o StripChars(args.afterVersion, {"^", "~"})
           /\ local.commitMessage =
                StrBumpSpace \o ExpectedSafeName(args.packageName) \o StrToV
                    \o StripChars(args.afterVersion, {"^", "~"})
           /\ args.packageName = <<"@", "p", "/", "p">>
                => SubSeq(local.branchName, 1, 8) = <<"b", "u", "m", "p", "-", "p", "-", "p">>

C7_Witness ==
    /\ args.packageName = <<"@", "p", "/", "p">>
    /\ args.afterVersion = <<"^", "1">>
    /\ local.branchName = <<"b", "u", "m", "p", "-", "p", "-", "p", "-", "v", "1">>
    /\ local.commitMessage = <<"B", "u", "m", "p", " ", "p", "-", "p", " ", "t", "o", " ", "v", "1">>

\* C7 as claimed: P is packageName with every '@' and '/' removed.
C7_Original_StripsSlash ==
    local.branchName # Undefined
        => /\ local.branchName =
                StrBumpDash \o StripChars(args.packageName, {"@", "/"}) \o StrDashV
                    \o StripChars(args.afterVersion, {"^", "~"})
           /\ local.commitMessage =
                StrBumpSpace \o StripChars(args.packageName, {"@", "/"}) \o StrToV
                    \o StripChars(args.afterVersion, {"^", "~"})

\* The owner and name bump.js:54 derives from each modelled remote URL.
ExpectedOwner == (UrlGithub :> "lerouxb") @@ (UrlEnterprise :> "team") @@ (UrlMirror :> "mirror")
ExpectedName == (UrlGithub :> "pmg") @@ (UrlEnterprise :> "myhub.git") @@ (UrlMirror :> "pmg")

\* C8: every pull request is requested with head the branch created and
\* pushed in this run, base the default branch (master, whose head after the
\* sync is the parent of the bump commit), title '[Technical] ' followed by
\* the message of the bump commit, and the owner and repo that getRepoInfo
\* derives from origin's URL.
C8_PullRequest ==
    \A i \in 1..Len(prRequests) :
        LET r == prRequests[i]
        IN /\ r.head = local.branchName
           /\ r.head \notin DOMAIN start.repo.branches
           /\ r.head \in DOMAIN repo.branches
           /\ r.head \in DOMAIN remote.branches
           /\ remote.branches[r.head] = repo.branches[r.head]
           /\ r.base = StrMaster
           /\ repo.commits[repo.branches[r.head]].parents = <<repo.branches[r.base]>>
           /\ r.title = StrTechnical \o repo.commits[repo.branches[r.head]].message
           /\ r.owner = ExpectedOwner[repo.origin[1]]
           /\ r.repo = ExpectedName[repo.origin[1]]
           /\ r.owner = local.repoInfo[1].owner
           /\ r.repo = local.repoInfo[1].name

C8_Witness ==
    /\ pc = "PRCreated"
    /\ Len(prRequests) = 1
    /\ prRequests[1] \in remote.prs
    /\ prRequests[1].head = <<"b", "u", "m", "p", "-", "s", "-", "p", "-", "v", "2">>
    /\ prRequests[1].owner = "team"

\* The API base URL of each modelled host.
ExpectedBaseUrl ==
    ("github.com" :> "https://api.github.com")
    @@ ("git.example.com" :> "https://git.example.com/api/v3")
    @@ ("github.com.example.org" :> "https://github.com.example.org/api/v3")

\* C9: the base URL of every hosting API request is a function of the host
\* of origin's URL alone: https://api.github.com for github.com, and
\* https://H/api/v3 for any other host H.
C9_BaseUrl ==
    \A i \in 1..Len(prRequests) :
        LET host == repo.origin[1].hostname
        IN /\ prRequests[i].baseUrl = ExpectedBaseUrl[host]
           /\ host # "github.com" => prRequests[i].baseUrl = "https://" \o host \o "/api/v3"

C9_Witness ==
    /\ Len(prRequests) = 1
    /\ repo.origin[1].hostname = "github.com"
    /\ prRequests[1].baseUrl = "https://api.github.com"

\* Sequence a is a prefix of sequence b.
IsPrefix(a, b) == Len(a) <= Len(b) /\ SubSeq(b, 1, Len(a)) = a

\* One step undoes nothing: no branch is deleted or moved back, HEAD does
\* not leave the new branch, a rewritten manifest is not restored, no commit
\* is dropped, no remote ref or pull request is removed; and the step that
\* aborts changes nothing but, possibly, the index.
NothingUndone ==
    /\ \A b \in DOMAIN repo.branches :
          b \in DOMAIN repo'.branches
          /\ isAncestor(repo'.commits, repo.branches[b], repo'.branches[b])
    /\ IsPrefix(repo.commits, repo'.commits)
    /\ repo.HEAD = local.branchName => repo'.HEAD = local.branchName
    /\ "writeFile" \in Range(calls) => repo'.worktree = repo.worktree
    /\ \A b \in DOMAIN remote.branches :
          b \in DOMAIN remote'.branches /\ remote'.branches[b] = remote.branches[b]
    /\ remote.prs \subseteq remote'.prs
    /\ pc' = "Aborted" => /\ remote' = remote
                          /\ [repo' EXCEPT !.index = repo.index] = repo

\* The effects each later failure finds, and leaves, in place.
EffectsInPlace ==
    /\ (pc = "Aborted" /\ proc.stderr \in {<<"writeFile failed">>, <<"addByPath failed">>,
                                           <<"createCommit failed">>, <<"push failed">>,
                                           <<"createPR failed">>})
          => /\ local.branchName \in DOMAIN repo.branches \ DOMAIN start.repo.branches
             /\ repo.HEAD = local.branchName
    /\ (pc = "Aborted" /\ proc.stderr \in {<<"addByPath failed">>, <<"createCommit failed">>,
                                           <<"push failed">>, <<"createPR failed">>})
          => getKey(getKey(FinalManifest, "dependencies"), args.packageName) = args.afterVersion
    /\ (pc = "Aborted" /\ proc.stderr \in {<<"push failed">>, <<"createPR failed">>})
          => HoldsBumpCommit(repo, local.branchName)
    /\ (pc = "Aborted" /\ proc.stderr = <<"createPR failed">>)
          => /\ local.branchName \in DOMAIN remote.branches
             /\ remote.branches[local.branchName] = repo.branches[local.branchName]

\* C10: no rollback. A run aborted at a step leaves every effect of the
\* steps before it in place (the new local branch, HEAD on it, the rewritten
\* manifest, the bump commit, the pushed branch), and no step of a run
\* undoes an earlier one.
C10_NoRollback ==
    /\ [][NothingUndone]_vars
    /\ [](EffectsInPlace)

C10_Witness ==
    /\ pc = "Aborted"
    /\ proc.stderr = <<"createPR failed">>
    /\ repo.HEAD = local.branchName
    /\ HoldsBumpCommit(repo, local.branchName)
    /\ remote.branches[local.branchName] = repo.branches[local.branchName]

\* The states of a run in which the new branch has been created.
AfterBranchCreation ==
    {"BranchCreated", "BranchCheckedOut", "ManifestUpdated", "Committed", "Pushed", "PRCreated"}

\* An earlier run on this working copy, for the same request, created the
\* branch (whatever became of that run afterwards).
EarlierRunCreatedBranch ==
    \E i \in DOMAIN start.prev :
        /\ start.prev[i].args = args
        /\ "createBranch" \in Range(start.prev[i].calls)
        /\ start.prev[i].proc.stderr # <<"createBranch failed">>

\* C11: a run that starts with a local branch named branchName never gets
\* past branch creation: the branch's ref stays where it was, the manifest is
\* not written, nothing is staged, committed or pushed and no pull request is
\* requested, and once createBranch has been called the run is aborted with
\* its error. A run for the same request as an earlier run that created the
\* branch starts with that branch, so it does not succeed.
C11_ExistingBranchAborts ==
    LET b == makeBranchName(args.packageName, args.afterVersion)
    IN  /\ (args.afterVersion # Undefined /\ b \in DOMAIN start.repo.branches)
              => /\ pc \notin AfterBranchCreation
                 /\ b \in DOMAIN repo.branches
                 /\ repo.branches[b] = start.repo.branches[b]
                 /\ Range(calls) \cap {"writeFile", "addByPath", "createCommit", "push", "createPR"} = {}
                 /\ repo.commits = start.repo.commits \/ "fetchAll" \in Range(calls)
                 /\ remote = start.remote
                 /\ prRequests = <<>>
                 /\ "createBranch" \in Range(calls)
                       => pc = "Aborted" /\ proc.stderr = <<"createBranch failed">>
        /\ EarlierRunCreatedBranch
              => /\ b \in DOMAIN start.repo.branches
                 /\ pc # "PRCreated"

\* The second run of a request whose first run succeeded is aborted at
\* branch creation.
C11_Witness ==
    /\ Len(start.prev) = 1
    /\ start.prev[1].args = args
    /\ start.prev[1].pc = "PRCreated"
    /\ pc = "Aborted"
    /\ proc.stderr = <<"createBranch failed">>
    /\ repo.branches[local.branchName] = start.repo.branches[local.branchName]

\* The line bump.js:166 prints once the push has succeeded.
PushedLine ==
    <<"Pushed", local.branchName, local.repoInfo[1].owner, local.repoInfo[1].name>>

\* C12: the exit code is 0 exactly in the state PRCreated, where standard
\* output holds the pushed-branch line followed by the pull request's URL and
\* standard error is empty; an aborted run has exit code 1 and its one error
\* on standard error, and never the URL on standard output. Standard output
\* of an aborted run is empty, except that a run aborted at pull-request
\* creation has already printed the pushed-branch line.
C12_ExitCodes ==
    /\ proc.exitCode = 0 <=> pc = "PRCreated"
    /\ proc.exitCode = 1 <=> pc = "Aborted"
    /\ pc \notin {"PRCreated", "Aborted"}
          => proc.exitCode = NoExit /\ proc.stderr = <<>>
    /\ pc = "PRCreated"
          => /\ proc.stdout = <<PushedLine,
                                <<"url", prRequests[1].baseUrl, local.repoInfo[1].owner,
                                  local.repoInfo[1].name, local.branchName>>>>
             /\ proc.stderr = <<>>
             /\ Range(calls) \cap {"push", "createPR"} = {"push", "createPR"}
    /\ pc = "Aborted"
          => /\ Len(proc.stderr) = 1
             /\ \A i \in DOMAIN proc.stdout : proc.stdout[i][1] # "url"
             /\ proc.stdout = IF proc.stderr = <<"createPR failed">> THEN <<PushedLine>> ELSE <<>>

\* A run aborted at pull-request creation, with exit code 1, whose standard
\* output holds the pushed-branch line.
C12_Witness ==
    /\ pc = "Aborted"
    /\ proc.exitCode = 1
    /\ proc.stderr = <<"createPR failed">>
    /\ proc.stdout = <<PushedLine>>

\* C12 as stated: a run that fails, at pull-request creation included, has
\* written no success report for the push to standard output.
C12_Original_NoPushReportOnFailure ==
    pc = "Aborted" => proc.stdout = <<>>

\* The request of the example: bump left-pad from 1.0.0 to ^1.2.0 in /repo.
LeftPadRequest ==
    /\ args.inputPath = "/repo"
    /\ args.packageName = <<"l", "e", "f", "t", "-", "p", "a", "d">>
    /\ args.beforeVersion = <<"1", ".", "0", ".", "0">>
    /\ args.afterVersion = <<"^", "1", ".", "2", ".", "0">>

\* 'bump-left-pad-v1.2.0'
LeftPadBranch ==
    <<"b", "u", "m", "p", "-", "l", "e", "f", "t", "-", "p", "a", "d", "-", "v", "1", ".", "2", ".", "0">>

\* 'Bump left-pad to v1.2.0'
LeftPadMessage ==
    <<"B", "u", "m", "p", " ", "l", "e", "f", "t", "-", "p", "a", "d", " ", "t", "o", " ",
      "v", "1", ".", "2", ".", "0">>

\* '[Technical] Bump left-pad to v1.2.0'
LeftPadTitle ==
    <<"[", "T", "e", "c", "h", "n", "i", "c", "a", "l", "]", " ">> \o LeftPadMessage

\* C13: a successful run of the left-pad request has created the local
\* branch 'bump-left-pad-v1.2.0' and pushed it to origin, the branch's head
\* is a commit with message 'Bump left-pad to v1.2.0' whose manifest, like
\* the one in the work tree, records left-pad at '^1.2.0', its parent's
\* manifest records '1.0.0', and the one pull request requested has that
\* branch as head and the title '[Technical] Bump left-pad to v1.2.0'.
C13_LeftPadExample ==
    (LeftPadRequest /\ pc = "PRCreated")
       => /\ LeftPadBranch \in DOMAIN repo.branches \ DOMAIN start.repo.branches
          /\ LeftPadBranch \in DOMAIN remote.branches
          /\ remote.branches[LeftPadBranch] = repo.branches[LeftPadBranch]
          /\ repo.HEAD = LeftPadBranch
          /\ LET c == repo.commits[repo.branches[LeftPadBranch]]
             IN  /\ c.message = LeftPadMessage
                 /\ Len(c.parents) = 1
                 /\ getKey(getKey(JSONparse(c.tree["package.json"]), "dependencies"),
                           args.packageName) = <<"^", "1", ".", "2", ".", "0">>
                 /\ getKey(getKey(JSONparse(treeOf(repo, c.parents[1])["package.json"]),
                                  "dependencies"), args.packageName) = <<"1", ".", "0", ".", "0">>
          /\ getKey(getKey(FinalManifest, "dependencies"), args.packageName)
                = <<"^", "1", ".", "2", ".", "0">>
          /\ Len(prRequests) = 1
          /\ prRequests[1].head = LeftPadBranch
          /\ prRequests[1].title = LeftPadTitle
          /\ prRequests[1] \in remote.prs

\* The left-pad request has succeeded on a manifest that recorded 1.0.0.
C13_Witness ==
    /\ LeftPadRequest
    /\ pc = "PRCreated"
    /\ start.repo.worktree["package.json"] = FileLeftPad100
    /\ repo.HEAD = LeftPadBranch

\* The errors of the three precondition checks of bump().
CredentialErrors == {<<"GITHUB_USERNAME required">>, <<"GITHUB_PASSWORD required">>}
CleanTreeErrors == {<<"uncommitted changes">>}
VersionErrors == {<<"must equal">>}

\* The operations that change the working copy or origin.
RepositoryMutations ==
    {"checkoutBranch", "fetchAll", "mergeBranches", "createBranch", "writeFile",
     "addByPath", "indexWrite", "writeTree", "createCommit", "push"}

\* The operations of the sync with origin's default branch.
SyncOps == {"checkoutBranch", "fetchAll", "mergeBranches"}

\* C14: the credential check and the clean-tree check precede every
\* operation that changes the repository: a run with a credential missing or
\* with a changed path never invokes one, and a run aborted by either check
\* has changed nothing. The version check comes after the checkout, fetch and
\* merge of the default branch and before everything else: a run aborted by
\* it has performed those three and none of branch creation, manifest write,
\* staging, commit or push, and leaves HEAD on the default branch with no
\* branch added and origin unchanged.
C14_PreconditionOrder ==
    /\ (env.GITHUB_USERNAME \in {Undefined, <<>>} \/ env.GITHUB_PASSWORD \in {Undefined, <<>>}
        \/ getStatus(start.repo) # {})
          => Range(calls) \cap RepositoryMutations = {}
    /\ (pc = "Aborted" /\ proc.stderr \in CredentialErrors \cup CleanTreeErrors)
          => /\ Range(calls) \cap RepositoryMutations = {}
             /\ NothingChanged
    /\ (pc = "Aborted" /\ proc.stderr \in VersionErrors)
          => /\ SyncOps \subseteq Range(calls)
             /\ Range(calls) \cap (RepositoryMutations \ SyncOps) = {}
             /\ repo.HEAD = StrMaster
             /\ DOMAIN repo.branches = DOMAIN start.repo.branches
             /\ repo.worktree = treeOf(repo, repo.branches[StrMaster])
             /\ remote = start.remote
             /\ prRequests = <<>>

\* A run that started on another branch, fast-forwarded the default branch
\* and was then aborted by the version check.
C14_Witness ==
    /\ pc = "Aborted"
    /\ proc.stderr = <<"must equal">>
    /\ start.repo.HEAD = StrFeature
    /\ repo.HEAD = StrMaster
    /\ repo.branches[StrMaster] # start.repo.branches[StrMaster]

\* C14 as stated: a run aborted by any of the three precondition checks has
\* performed no operation that changes the repository.
C14_Original_AllChecksBeforeMutation ==
    (pc = "Aborted" /\ proc.stderr \in CredentialErrors \cup CleanTreeErrors \cup VersionErrors)
        => Range(calls) \cap RepositoryMutations = {}

\* How many times operation op has been invoked in this run.
Count(op) == Cardinality({i \in DOMAIN calls : calls[i] = op})

\* The position of the first invocation of op in this run.
FirstCall(op) == CHOOSE i \in DOMAIN calls : calls[i] = op /\ \A j \in 1..(i - 1) : calls[j] # op

\* The states of a run in which the manifest has been read and accepted.
AfterVersionCheck ==
    {"VersionVerified"} \cup AfterBranchCreation

CommitStep ==
    (pc = "ManifestUpdated" /\ Len(repo'.commits) # Len(repo.commits))
       => /\ Len(repo'.commits) = Len(repo.commits) + 1
          /\ repo.HEAD = local.branchName
          /\ repo'.HEAD = local.branchName
          /\ local.branchName \notin DOMAIN start.repo.branches
          /\ \A p \in Paths \ {"package.json"} : repo'.index[p] = repo.index[p]
          /\ repo'.index["package.json"] = repo.worktree["package.json"]
          /\ Cardinality({i \in DOMAIN calls' : calls'[i] = "addByPath"}) = 1
          /\ LET c == repo'.commits[Len(repo'.commits)]
             IN  /\ c.tree = repo'.index
                 /\ c.message = local.commitMessage
                 /\ c.parents = <<repo.branches[local.branchName]>>
                 /\ c.parents = <<repo.branches[StrMaster]>>
          /\ repo'.branches[local.branchName] = Len(repo'.commits)
          /\ \A b \in DOMAIN repo.branches \ {local.branchName} :
                repo'.branches[b] = repo.branches[b]

\* No other step of the run creates a commit or moves the new branch, and
\* the only other commits that appear are those the fetch brings.
OnlyCommitStepCommits ==
    (pc # "ManifestUpdated" /\ Len(repo'.commits) # Len(repo.commits))
       => /\ pc = "MasterCheckedOut"
          /\ DOMAIN repo'.branches = DOMAIN repo.branches
          /\ \A b \in DOMAIN repo.branches : repo'.branches[b] = repo.branches[b]

\* C16: the commit of a run is created with HEAD on the new branch, with
\* only the manifest path staged, and with exactly one parent: the commit
\* the new branch was created at, the head of the default branch after the
\* sync. No other step commits.
C16_CommitOnNewBranch == [][CommitStep /\ OnlyCommitStepCommits]_vars

\* The bump commit is on the new branch and its parent is the head the
\* default branch was fast-forwarded to.
C16_Witness ==
    /\ pc = "Committed"
    /\ repo.HEAD = local.branchName
    /\ repo.commits[repo.branches[local.branchName]].parents = <<repo.branches[StrMaster]>>
    /\ repo.branches[StrMaster] # start.repo.branches[StrMaster]
    /\ repo.commits[repo.branches[local.branchName]].tree["README.md"]
          = treeOf(repo, repo.branches[StrMaster])["README.md"]

\* The version the manifest of commit c records for packageName (Undefined
\* when the manifest has no such entry, no dependencies, or is not JSON).
RecordedAt(r, c) ==
    LET file == treeOf(r, c)["package.json"]
    IN  IF file.valid /\ hasKey(JSONparse(file), "dependencies")
        THEN getKey(getKey(JSONparse(file), "dependencies"), args.packageName)
        ELSE Undefined

\* The step that reads the manifest: HEAD is the default branch, which holds
\* what was fetched (origin/master), and the file read is the manifest of its
\* head; the run goes on exactly when that manifest is JSON with a
\* dependencies mapping whose entry for packageName equals beforeVersion.
ReadsSyncedManifest ==
    pc = "Synced"
       => /\ repo.HEAD = StrMaster
          /\ repo.branches[StrMaster] = repo.tracking
          /\ repo.worktree["package.json"] = treeOf(repo, repo.tracking)["package.json"]
          /\ pc' \in {"VersionVerified", "Aborted"}
          /\ pc' = "VersionVerified"
                <=> LET file == treeOf(repo, repo.branches[StrMaster])["package.json"]
                    IN  /\ file.valid
                        /\ hasKey(JSONparse(file), "dependencies")
                        /\ RecordedAt(repo, repo.branches[StrMaster]) = args.beforeVersion

\* The manifest has been read only after the checkout of the default branch,
\* the fetch and the merge all succeeded.
ReadOnlyAfterSync ==
    /\ "readFile" \in Range(calls)
          => /\ SyncOps \subseteq Range(calls)
             /\ FirstCall("mergeBranches") < FirstCall("readFile")
             /\ proc.stderr \notin {<<"fetch failed">>, <<"merge conflict">>}
             /\ proc.stderr = <<"checkout failed">> => Count("checkoutBranch") = 2
    /\ (pc = "Aborted" /\ proc.stderr \in {<<"fetch failed">>, <<"merge conflict">>})
          => "readFile" \notin Range(calls)
    /\ (pc = "Aborted" /\ proc.stderr = <<"checkout failed">> /\ Count("checkoutBranch") = 1)
          => "readFile" \notin Range(calls)

\* C17: the version compared with beforeVersion is read from the manifest of
\* the default branch's head after the fetch and the merge, whatever was
\* checked out when the run started; and when the checkout, the fetch or the
\* merge fails the manifest is not read.
C17_VersionFromSyncedDefaultBranch ==
    [][ReadsSyncedManifest]_vars /\ []ReadOnlyAfterSync

\* The check passed on the post-merge value: the manifest checked out when
\* the run started recorded a version other than beforeVersion, and the
\* merge brought the one that matches.
C17_Witness ==
    /\ pc = "VersionVerified"
    /\ start.repo.HEAD = StrMaster
    /\ start.repo.worktree["package.json"] = FileLeftPad100
    /\ RecordedAt(start.repo, start.repo.branches[StrMaster]) = Str100
    /\ args.beforeVersion = Str200
    /\ repo.branches[StrMaster] # start.repo.branches[StrMaster]
    /\ RecordedAt(repo, repo.branches[StrMaster]) = Str200

\* The bump commit exists: the commit step has succeeded.
BumpCommitted ==
    \/ pc \in {"Committed", "Pushed", "PRCreated"}
    \/ pc = "Aborted" /\ proc.stderr \in {<<"push failed">>, <<"createPR failed">>}

\* C18: when the run is about to commit (and when the commit step fails),
\* HEAD is the new branch and the only path whose work-tree file or index
\* entry differs from the head's tree, untracked paths included, is the
\* manifest; and the tree of the bump commit equals the tree of its parent at
\* every path but the manifest.
C18_OnlyManifestDiffers ==
    /\ (pc = "ManifestUpdated"
        \/ (pc = "Aborted" /\ proc.stderr \in {<<"addByPath failed">>, <<"createCommit failed">>}))
          => /\ repo.HEAD = local.branchName
             /\ getStatus(repo) \subseteq {"package.json"}
             /\ repo.untracked = {}
    /\ BumpCommitted
          => LET c == repo.commits[repo.branches[local.branchName]]
             IN  /\ Len(c.parents) = 1
                 /\ \A p \in Paths \ {"package.json"} : c.tree[p] = treeOf(repo, c.parents[1])[p]
                 /\ getStatus(repo) = {}

\* A run that started on another branch, with other files, has committed:
\* the commit differs from its parent in the manifest and nowhere else.
C18_Witness ==
    /\ pc = "Committed"
    /\ start.repo.HEAD = StrFeature
    /\ LET c == repo.commits[repo.branches[local.branchName]]
       IN  /\ c.tree["package.json"] # treeOf(repo, c.parents[1])["package.json"]
           /\ c.tree["README.md"] = treeOf(repo, c.parents[1])["README.md"]
           /\ c.tree["README.md"] # start.repo.worktree["README.md"]

\* The run before this one, when there was one.
PreviousRun == start.prev[Len(start.prev)]

\* This run follows a successful run and has a different request.
FollowsSuccess ==
    /\ Len(start.prev) > 0
    /\ PreviousRun.pc = "PRCreated"
    /\ PreviousRun.args # args

\* C19: when a run has succeeded, HEAD is branchName and not the default
\* branch, no path is changed or untracked, the default branch still points
\* at the synced head (the parent of the bump commit, which is what was
\* fetched), and the bump commit is an ancestor of no other branch's head. A
\* run that follows with a different request finds HEAD on the earlier
\* run's branch, is not aborted by the clean-tree check, and continues from
\* the default branch: after its checkout HEAD is the default branch, and
\* the branch it creates starts at the default branch's head, which does not
\* contain the earlier bump commit.
C19_AfterSuccess ==
    /\ pc = "PRCreated"
          => /\ repo.HEAD = local.branchName
             /\ repo.HEAD # StrMaster
             /\ getStatus(repo) = {}
             /\ ~repoHasUncommittedChanges(repo)
             /\ LET bump == repo.branches[local.branchName]
                IN  /\ repo.commits[bump].parents = <<repo.branches[StrMaster]>>
                    /\ repo.branches[StrMaster] = repo.tracking
                    /\ \A b \in DOMAIN repo.branches \ {local.branchName} :
                          ~isAncestor(repo.commits, bump, repo.branches[b])
    /\ FollowsSuccess
          => /\ start.repo.HEAD = makeBranchName(PreviousRun.args.packageName,
                                                 PreviousRun.args.afterVersion)
             /\ proc.stderr # <<"uncommitted changes">>
             /\ pc \in {"MasterCheckedOut", "Fetched", "Synced", "VersionVerified", "BranchCreated"}
                   => repo.HEAD = StrMaster
             /\ pc \in AfterBranchCreation
                   => /\ local.branchName \notin DOMAIN start.repo.branches
                      /\ ~isAncestor(repo.commits, start.repo.branches[start.repo.HEAD],
                                     repo.branches[local.branchName])
                      /\ isAncestor(repo.commits, repo.branches[StrMaster],
                                    repo.branches[local.branchName])

\* A second run, for another request, has succeeded after a successful
\* first run: it started on the first run's branch and ends on its own.
C19_Witness ==
    /\ FollowsSuccess
    /\ pc = "PRCreated"
    /\ start.repo.HEAD # StrMaster
    /\ repo.HEAD = local.branchName
    /\ repo.HEAD # start.repo.HEAD
    /\ Cardinality(remote.prs) = 2

\* The keys of the dependencies mapping of a parsed manifest.
DependencyKeys(pkg) == keysOf(getKey(pkg, "dependencies"))

\* The manifest read after the sync is JSON with a dependencies mapping that
\* has no entry for packageName.
EntryMissing ==
    /\ "readFile" \in Range(calls)
    /\ treeOf(repo, repo.branches[StrMaster])["package.json"].valid
    /\ hasKey(SyncedManifest, "dependencies")
    /\ args.packageName \notin DependencyKeys(SyncedManifest)

====
